---------------------------- MODULE Spec2Model ----------------------------
(* A model of packages/wrangler/src/cloudchamber/list.ts: the `list`      *)
(* command of cloudchamber.  Three parts are modelled:                     *)
(*   - eventMessage and placementToOptions, the pure rendering functions;  *)
(*   - the command handler's non-interactive path (--json, or no TTY);     *)
(*   - listCommandHandle, the interactive loop with its refresh callback.  *)
(* Strings are sequences: an id is a sequence of characters, a styled      *)
(* text is a sequence of segments [style, text], and string concatenation  *)
(* is \o; every text is a sequence of strings.  The services and the     *)
(* prompt toolkit are outside the file: what they return is a            *)
(* nondeterministic choice from small sets.                               *)
EXTENDS Integers, Sequences, FiniteSets, TLC

VARIABLES
    pc,          \* where the command handler is
    rejected,    \* the await whose promise rejected, "none" while none has
    prefix,      \* deploymentArgs.deploymentIdPrefix ?? ""
    filters,     \* deploymentArgs.location / image / state / ipv4
    json,        \* config.json
    interactive, \* isInteractive()
    calls,       \* the operations called, in order: by the handler before
                 \* the loop, and in the current iteration of the loop
    printed,     \* what console.log has written, in order
    listed,      \* listCommand: what listDeployments resolved to
    deployments, \* listCommand / listCommandHandle: const deployments
    placements,  \* listCommand: const placements
    iter,        \* how many iterations of the while loop have started
    deployment,  \* listCommandHandle: const deployment
    closures,    \* per iteration whose prompt has opened and in which code
                 \* can still run: what onRefresh closes over (deployment,
                 \* the refresh flag) and its invocations awaiting
                 \* listPlacements
    spinner,     \* the last call of a start() or stop(), and who made it
    invoked,     \* onRefresh invocations so far
    shown,       \* the option list the placement prompt displays
    lastReturn,  \* the last return of options by an onRefresh invocation
                 \* since this iteration of the loop began
    lateReturn,  \* the last return by an onRefresh invocation that found
                 \* its prompt dismissed, since this iteration began
    evPlacement, \* rendering: the placement given to placementToOptions
    evCalls,     \* rendering: the arguments of each eventMessage call
    evOption     \* rendering: the option placementToOptions returned

vars == <<pc, rejected, prefix, filters, json, interactive, calls, printed,
          listed, deployments, placements, iter, deployment, closures,
          spinner, invoked, shown, lastReturn, lateReturn, evPlacement,
          evCalls, evOption>>

argVars == <<prefix, filters, json, interactive>>
jsonVars == <<listed, placements, printed>>
loopVars == <<iter, deployment, closures, spinner, invoked, shown,
              lastReturn, lateReturn>>
renderVars == <<evPlacement, evCalls, evOption>>

-----------------------------------------------------------------------------
(* Bounds of the model. *)

\* Longest list of deployments the service returns.
MaxDeployments == 2
\* Longest list of placements the service returns.
MaxPlacements == 2
\* Longest event list of a rendered placement.
MaxEvents == 2
\* Iterations of the interactive loop.
MaxIter == 2
\* onRefresh invocations in one run of the command.
MaxRefresh == 2
\* The clock's readings are 0..MaxClock.
MaxClock == 1

\* All sequences over S of length at most n.
SeqUpTo(S, n) == UNION {[1..k -> S] : k \in 0..n}

\* Those of them that hold no element twice.
DistinctSeqUpTo(S, n) ==
    {s \in SeqUpTo(S, n) : \A i, j \in 1..Len(s) : s[i] = s[j] => i = j}

-----------------------------------------------------------------------------
(* Text. *)

Seg(style, text) == [style |-> style, text |-> text]

\* String.prototype.startsWith
StartsWith(s, p) == Len(p) <= Len(s) /\ SubSeq(s, 1, Len(p)) = p

\* String.prototype.slice(0, n)
Slice0(s, n) == SubSeq(s, 1, IF Len(s) < n THEN Len(s) ELSE n)

\* Array.prototype.filter
RECURSIVE Filter(_, _)
Filter(s, p) ==
    IF s = <<>> THEN <<>>
    ELSE IF StartsWith(Head(s).id, p) THEN <<Head(s)>> \o Filter(Tail(s), p)
    ELSE Filter(Tail(s), p)

-----------------------------------------------------------------------------
(* Events and their rendering. *)

EventNames == {"VMStopped", "VMStarted", "SSHStarted", "ImagePulled"}
\* statusChange["health"]; "none" stands for a statusChange without the key.
Healths == {"failed", "running", "none"}
Messages == {"m1", "m2"}

Events ==
    [name : EventNames, health : Healths, message : Messages, time : {"t"}]

\* eventMessage with the test of the health after the tests of the name.
eventMessageFailedLast(event, lastEvent) ==
    LET message == <<event.message>>
        name == event.name
        health == event.health
        styled ==
            IF lastEvent /\ name = "VMStopped"
            THEN <<Seg("yellow", message)>>
            ELSE IF (lastEvent /\ name = "VMStarted") \/ name = "SSHStarted"
            THEN <<Seg("green", message)>>
            ELSE IF health = "failed"
            THEN <<Seg("bgRed", <<" X ">>), Seg("plain", <<" ">>), Seg("dim", message)>>
            ELSE IF lastEvent
            THEN <<Seg("brandColor", message)>>
            ELSE <<Seg("dim", message)>>
    IN  styled \o <<Seg("plain", <<" (", event.time, ")">>)>>

\* eventMessage with every event treated as the last one.
eventMessageIgnoresLast(event, lastEvent) ==
    LET message == <<event.message>>
        name == event.name
        health == event.health
        styled ==
            IF health = "failed"
            THEN <<Seg("bgRed", <<" X ">>), Seg("plain", <<" ">>), Seg("dim", message)>>
            ELSE IF name = "VMStopped"
            THEN <<Seg("yellow", message)>>
            ELSE IF name = "VMStarted" \/ name = "SSHStarted"
            THEN <<Seg("green", message)>>
            ELSE <<Seg("brandColor", message)>>
    IN  styled \o <<Seg("plain", <<" (", event.time, ")">>)>>

\* eventMessage with lastEvent && (VMStarted || SSHStarted).
eventMessageSSHLastOnly(event, lastEvent) ==
    LET message == <<event.message>>
        name == event.name
        health == event.health
        styled ==
            IF health = "failed"
            THEN <<Seg("bgRed", <<" X ">>), Seg("plain", <<" ">>), Seg("dim", message)>>
            ELSE IF lastEvent /\ name = "VMStopped"
            THEN <<Seg("yellow", message)>>
            ELSE IF lastEvent /\ (name = "VMStarted" \/ name = "SSHStarted")
            THEN <<Seg("green", message)>>
            ELSE IF lastEvent
            THEN <<Seg("brandColor", message)>>
            ELSE <<Seg("dim", message)>>
    IN  styled \o <<Seg("plain", <<" (", event.time, ")">>)>>

\* function eventMessage(event, lastEvent)
eventMessage(event, lastEvent) ==
    LET message == <<event.message>>
        name == event.name
        health == event.health
        styled ==
            IF health = "failed"
            THEN <<Seg("bgRed", <<" X ">>), Seg("plain", <<" ">>), Seg("dim", message)>>
            ELSE IF lastEvent /\ name = "VMStopped"
            THEN <<Seg("yellow", message)>>
            ELSE IF (lastEvent /\ name = "VMStarted") \/ name = "SSHStarted"
            THEN <<Seg("green", message)>>
            ELSE IF lastEvent
            THEN <<Seg("brandColor", message)>>
            ELSE <<Seg("dim", message)>>
    IN  styled \o <<Seg("plain", <<" (", event.time, ")">>)>>

\* eventCalls with i === 0 for the last event.
eventCallsLastIsFirst(p) ==
    [i \in 1..Len(p.events) |->
        [event |-> p.events[i], lastEvent |-> (i = 1)]]

\* p.events.map((event, i) => ... eventMessage(event, i === p.events.length - 1)):
\* the arguments of each call.  Indices are 1-based here, so the source's
\* index length - 1 is Len(p.events).
eventCalls(p) ==
    [i \in 1..Len(p.events) |->
        [event |-> p.events[i], lastEvent |-> (i = Len(p.events))]]

\* const placementToOptions = (p) => ({label, details, value})
placementToOptions(p) ==
    [label |-> <<"Placement ">> \o Slice0(p.id, 6)
                \o <<" (", p.created_at, ")">>,
     details |->
        << <<Seg("plain", <<"ID: ">>), Seg("dim", p.id)>>,
           <<Seg("plain", <<"Version: ">>), Seg("dim", <<p.deployment_version>>)>>,
           <<Seg("plain", <<"Status: ">>), Seg("statusToColored", <<p.health>>)>>,
           <<Seg("bgCyan.white", <<"Events">>)>> >>
        \o [i \in 1..Len(p.events) |->
              <<Seg("plain", <<" ">>)>>
              \o eventMessage(eventCalls(p)[i].event, eventCalls(p)[i].lastEvent)],
     value |-> p.id]

\* placements.map(placementToOptions)
mapPlacementToOptions(ps) == [i \in 1..Len(ps) |-> placementToOptions(ps[i])]

-----------------------------------------------------------------------------
(* Placements. *)

Placement(id, events) ==
    [id |-> id, created_at |-> "c", deployment_version |-> "1",
     health |-> "running", events |-> events]

\* The placements given to the renderer: every event list up to MaxEvents.
RenderedPlacements ==
    {Placement(<<"a", "b", "c", "d", "e", "f", "g">>, es) :
        es \in SeqUpTo(Events, MaxEvents)}

NoOption == [label |-> <<>>, details |-> <<>>, value |-> <<>>]

\* deployment before the chooser has returned one.
NoDeployment == [id |-> <<>>, location |-> ""]

\* spinner before any start() or stop().
NoSpin == [iter |-> 0, op |-> "none", by |-> "none"]

\* lastReturn while no onRefresh invocation has returned.
NoReturn == [iter |-> 0, fetched |-> <<>>, options |-> <<>>]

\* lateReturn while no onRefresh invocation has returned late.
NoLateReturn == [iter |-> 0, options |-> <<>>]

-----------------------------------------------------------------------------
(* The renderer alone: placementToOptions applied to one placement. *)

InitRender ==
    /\ evPlacement \in RenderedPlacements
    /\ evCalls = <<>>
    /\ evOption = NoOption
    /\ pc = "render"
    /\ rejected = "none"
    /\ prefix = <<>> /\ filters = <<>> /\ json = FALSE /\ interactive = TRUE
    /\ calls = <<>> /\ printed = <<>> /\ listed = <<>> /\ deployments = <<>>
    /\ placements = <<>>
    /\ iter = 0 /\ deployment = NoDeployment /\ closures = <<>>
    /\ spinner = NoSpin /\ invoked = 0 /\ shown = <<>>
    /\ lastReturn = NoReturn /\ lateReturn = NoLateReturn

RenderPlacement ==
    /\ pc = "render"
    /\ pc' = "rendered"
    /\ evCalls' = eventCalls(evPlacement)
    /\ evOption' = placementToOptions(evPlacement)
    /\ UNCHANGED <<evPlacement, rejected, calls, deployments>>
    /\ UNCHANGED argVars
    /\ UNCHANGED jsonVars
    /\ UNCHANGED loopVars

NextRender == RenderPlacement

SpecRender == InitRender /\ [][NextRender]_vars

\* What eventMessage returned for the i-th event: the detail line after the
\* four header lines, without the leading space(1).
Rendering(i) == Tail(evOption.details[4 + i])

EventAt(i) == evPlacement.events[i]

EventIndices ==
    IF pc = "rendered" THEN 1..Len(evPlacement.events) ELSE {}

FailureMarked(i) ==
    /\ Len(Rendering(i)) >= 3
    /\ SubSeq(Rendering(i), 1, 3) =
         <<Seg("bgRed", <<" X ">>), Seg("plain", <<" ">>),
           Seg("dim", <<EventAt(i).message>>)>>

\* The message of the i-th event is rendered in `style`, with no marker.
Styled(i, style) == Rendering(i)[1] = Seg(style, <<EventAt(i).message>>)

StylesOf(i) == {Rendering(i)[k].style : k \in 1..Len(Rendering(i))}

IsLast(i) == i = Len(evPlacement.events)

\* C2: an event is rendered with the failure marker (bgRed " X ", then the
\* dimmed message) exactly when its health is "failed", whatever its name and
\* whether or not it is the last event.
C2_FailedAlwaysMarked ==
    \A i \in EventIndices :
        /\ EventAt(i).health = "failed" => FailureMarked(i)
        /\ EventAt(i).health # "failed" => "bgRed" \notin StylesOf(i)

\* C2 witness: a failed SSHStarted that is not last and a failed VMStopped
\* that is last, both with the marker.
C2_Witness ==
    /\ pc = "rendered"
    /\ Len(evPlacement.events) = 2
    /\ EventAt(1).health = "failed" /\ EventAt(1).name = "SSHStarted"
    /\ EventAt(2).health = "failed" /\ EventAt(2).name = "VMStopped"
    /\ FailureMarked(1) /\ FailureMarked(2)

\* C3 as stated: an SSHStarted event is rendered green at every position and
\* for every health.
C3_SSHAlwaysGreen ==
    \A i \in EventIndices :
        EventAt(i).name = "SSHStarted" => Styled(i, "green")

\* C3 amended: an SSHStarted event whose health is not "failed" is rendered
\* green at every position; one whose health is "failed" gets the failure
\* marker instead.
C3_SSHGreenUnlessFailed ==
    \A i \in EventIndices :
        EventAt(i).name = "SSHStarted" =>
            IF EventAt(i).health = "failed"
            THEN FailureMarked(i) /\ "green" \notin StylesOf(i)
            ELSE Styled(i, "green")

\* C3 witness: SSHStarted twice, not failed, last and not last, both green.
C3_Witness ==
    /\ pc = "rendered"
    /\ Len(evPlacement.events) = 2
    /\ \A i \in 1..2 :
        /\ EventAt(i).name = "SSHStarted"
        /\ EventAt(i).health # "failed"
        /\ Styled(i, "green")

\* C4: of a non-empty event list exactly the event at the last index is passed
\* to eventMessage with lastEvent true; when it has not failed it is yellow if
\* VMStopped and green if VMStarted; a VMStopped or VMStarted at an earlier
\* index is neither yellow nor green.
C4_OnlyLastHighlighted ==
    /\ pc = "rendered" => Len(evCalls) = Len(evPlacement.events)
    /\ \A i \in EventIndices :
        /\ evCalls[i].event = EventAt(i)
        /\ evCalls[i].lastEvent = IsLast(i)
        /\ (IsLast(i) /\ EventAt(i).health # "failed") =>
              /\ EventAt(i).name = "VMStopped" => Styled(i, "yellow")
              /\ EventAt(i).name = "VMStarted" => Styled(i, "green")
        /\ (~IsLast(i) /\ EventAt(i).name \in {"VMStopped", "VMStarted"}) =>
              StylesOf(i) \cap {"yellow", "green"} = {}

\* C4 witness: VMStopped then VMStopped, neither failed: only the second is
\* yellow.
C4_Witness ==
    /\ pc = "rendered"
    /\ Len(evPlacement.events) = 2
    /\ \A i \in 1..2 :
        EventAt(i).name = "VMStopped" /\ EventAt(i).health = "running"
    /\ Styled(2, "yellow") /\ ~Styled(1, "yellow")

\* C5: an event that is not last, has not failed and is not SSHStarted is
\* dimmed; brandColor, yellow, and green for VMStarted occur only on the last
\* event.
C5_NonLastDimmed ==
    \A i \in EventIndices :
        /\ (~IsLast(i) /\ EventAt(i).health # "failed"
                /\ EventAt(i).name # "SSHStarted") => Styled(i, "dim")
        /\ ( \/ "brandColor" \in StylesOf(i)
             \/ "yellow" \in StylesOf(i)
             \/ ("green" \in StylesOf(i) /\ EventAt(i).name = "VMStarted") )
           => IsLast(i)

\* C5 witness: an ImagePulled that is not last is dimmed while the same event
\* as the last one has the brand colour.
C5_Witness ==
    /\ pc = "rendered"
    /\ Len(evPlacement.events) = 2
    /\ \A i \in 1..2 :
        EventAt(i).name = "ImagePulled" /\ EventAt(i).health = "none"
    /\ Styled(1, "dim") /\ Styled(2, "brandColor")

-----------------------------------------------------------------------------
(* The command handler: inputs and the services' answers. *)

\* Deployment ids over which the prefixes below select zero, one, two or all.
Deployments ==
    { [id |-> <<"a">>, location |-> "l"],
      [id |-> <<"a", "b">>, location |-> "l"],
      [id |-> <<"b">>, location |-> "l"] }

\* What listDeployments may return.
DeploymentLists == SeqUpTo(Deployments, MaxDeployments)

\* What loadDeployments may return to the chooser: no deployment twice.
LoadedDeploymentLists == DistinctSeqUpTo(Deployments, MaxDeployments)

\* deploymentIdPrefix; <<>> is the absent prefix's "".
Prefixes == { <<>>, <<"a">>, <<"a", "b">> }

Undefined == "undefined"

\* --location, --image, --state, --ipv4
FilterSets ==
    { [location |-> Undefined, image |-> Undefined, state |-> Undefined,
       ipv4 |-> Undefined],
      [location |-> "l", image |-> "i", state |-> "s", ipv4 |-> "4"] }

\* The placements the service knows of: their ids agree on the six characters
\* the label shows.
ServicePlacements ==
    { Placement(<<"a", "b", "c", "d", "e", "f", "g">>,
                << [name |-> "VMStarted", health |-> "running",
                    message |-> "m1", time |-> "t"] >>),
      Placement(<<"a", "b", "c", "d", "e", "f", "h">>,
                << [name |-> "SSHStarted", health |-> "failed",
                    message |-> "m1", time |-> "t"],
                   [name |-> "VMStopped", health |-> "none",
                    message |-> "m2", time |-> "t"] >>) }

\* What listPlacements may return: no placement twice.
PlacementLists == DistinctSeqUpTo(ServicePlacements, MaxPlacements)

Call(from, op, args) == [from |-> from, op |-> op, args |-> args]

\* JSON.stringify(value, null, 4): the text of an object or of an array.
Stringify(kind, value) == [json |-> kind, indent |-> 4, value |-> value]

\* { ...deployments[0], placements }
WithPlacements(d, ps) == [placements |-> ps] @@ d

\* DeploymentsService.listDeployments(location, image, state, ipv4)
ListDeploymentsCall ==
    Call("listCommand", "listDeployments",
         <<filters.location, filters.image, filters.state, filters.ipv4>>)

\* loadDeployments(deploymentIdPrefix, args)
LoadDeploymentsCall ==
    Call("listCommandHandle", "loadDeployments", <<prefix, filters>>)

InitHandler ==
    /\ pc = "loadAccountSpinner"
    /\ rejected = "none"
    /\ prefix \in Prefixes
    /\ filters \in FilterSets
    /\ json \in BOOLEAN
    /\ interactive \in BOOLEAN
    /\ calls = <<Call("listCommand", "loadAccountSpinner", <<>>)>>
    /\ printed = <<>>
    /\ listed = <<>>
    /\ deployments = <<>>
    /\ placements = <<>>
    /\ iter = 0 /\ deployment = NoDeployment /\ closures = <<>>
    /\ spinner = NoSpin /\ invoked = 0 /\ shown = <<>>
    /\ lastReturn = NoReturn /\ lateReturn = NoLateReturn
    /\ evPlacement = Placement(<<>>, <<>>) /\ evCalls = <<>>
    /\ evOption = NoOption

\* A rejected await: nothing in the file catches it, the handler ends and the
\* rejection reaches handleFailure.
Rejects(at) ==
    /\ pc = at
    /\ pc' = "failed"
    /\ rejected' = at
    /\ UNCHANGED <<calls, deployments>>
    /\ UNCHANGED argVars
    /\ UNCHANGED jsonVars
    /\ UNCHANGED loopVars
    /\ UNCHANGED renderVars

\* await loadAccountSpinner(config) resolves; the handler runs to its next
\* await: listDeployments on the non-interactive path, and on the interactive
\* one the first loadDeployments of listCommandHandle.
LoadAccountResolves ==
    /\ pc = "loadAccountSpinner"
    /\ IF json \/ ~interactive
       THEN /\ pc' = "json.listDeployments"
            /\ calls' = Append(calls, ListDeploymentsCall)
            /\ iter' = iter
       ELSE /\ pc' = "loadDeployments"
            /\ calls' = <<LoadDeploymentsCall>>
            /\ iter' = 1
    /\ UNCHANGED <<rejected, deployments>>
    /\ UNCHANGED argVars
    /\ UNCHANGED jsonVars
    /\ UNCHANGED <<deployment, closures, spinner, invoked, shown, lastReturn,
                   lateReturn>>
    /\ UNCHANGED renderVars

LoadAccountFails == Rejects("loadAccountSpinner")

-----------------------------------------------------------------------------
(* The non-interactive path (lines 72-100). *)

\* deployments.length >= 1
SingleMatchAtLeastOne(ds) == Len(ds) >= 1

\* deployments.length === 1
SingleMatch(ds) == Len(ds) = 1

\* await listDeployments(...) resolves to D.  The list is filtered by the
\* prefix; with one match the handler goes on to listPlacements, otherwise it
\* prints the filtered list and returns.
ListDeploymentsResolves ==
    /\ pc = "json.listDeployments"
    /\ \E D \in DeploymentLists :
        /\ listed' = D
        /\ deployments' = Filter(D, prefix)
    /\ IF SingleMatch(deployments')
       THEN /\ calls' = Append(calls,
                   Call("listCommand", "listPlacements", <<deployments'[1].id>>))
            /\ printed' = printed
            /\ pc' = "json.listPlacements"
       ELSE /\ calls' = calls
            /\ printed' = Append(printed, Stringify("array", deployments'))
            /\ pc' = "returned"
    /\ UNCHANGED <<rejected, placements>>
    /\ UNCHANGED argVars
    /\ UNCHANGED loopVars
    /\ UNCHANGED renderVars

\* A rejected listDeployments caught and called again.
ListDeploymentsFailsRetried ==
    /\ pc = "json.listDeployments"
    /\ Len(calls) < 4
    /\ calls' = Append(calls, ListDeploymentsCall)
    /\ UNCHANGED <<pc, rejected, deployments>>
    /\ UNCHANGED argVars
    /\ UNCHANGED jsonVars
    /\ UNCHANGED loopVars
    /\ UNCHANGED renderVars

ListDeploymentsFails == Rejects("json.listDeployments")

\* await listPlacements(deployments[0].id) resolves to P: the deployment is
\* printed with P under the key placements, and the handler returns.
ListPlacementsResolves ==
    /\ pc = "json.listPlacements"
    /\ \E P \in PlacementLists : placements' = P
    /\ printed' = Append(printed,
           Stringify("object", WithPlacements(deployments[1], placements')))
    /\ pc' = "returned"
    /\ UNCHANGED <<rejected, calls, listed, deployments>>
    /\ UNCHANGED argVars
    /\ UNCHANGED loopVars
    /\ UNCHANGED renderVars

ListPlacementsFails == Rejects("json.listPlacements")

NextJson ==
    \/ LoadAccountResolves
    \/ LoadAccountFails
    \/ ListDeploymentsResolves
    \/ ListDeploymentsFails
    \/ ListPlacementsResolves
    \/ ListPlacementsFails

\* The command run with --json or without a terminal.
InitJson == InitHandler /\ (json \/ ~interactive)

SpecJson == InitJson /\ [][NextJson]_vars

\* The deployments of `listed` whose id starts with the prefix, in order.
Matching ==
    SelectSeq(listed,
              LAMBDA d : \E k \in 0..Len(d.id) : SubSeq(d.id, 1, k) = prefix)

CallsOf(op) == {i \in DOMAIN calls : calls[i].op = op}

\* C1: on the non-interactive path a returned handler has printed exactly one
\* value and opened no chooser.  With M the deployments of the service's list
\* whose id starts with the prefix: if M has one element the value is that
\* deployment with the key placements added, holding what listPlacements,
\* called once with that id, resolved to; otherwise the value is the array M
\* and listPlacements was not called.
C1_JsonOutput ==
    /\ Len(printed) <= 1
    /\ (pc = "returned" /\ (json \/ ~interactive)) =>
        /\ Len(printed) = 1
        /\ printed[1].indent = 4
        /\ iter = 0 /\ deployment = NoDeployment
        /\ CallsOf("loadDeployments") = {}
        /\ IF Len(Matching) = 1
           THEN /\ printed[1].json = "object"
                /\ DOMAIN printed[1].value
                     = DOMAIN Matching[1] \cup {"placements"}
                /\ \A k \in DOMAIN Matching[1] :
                     printed[1].value[k] = Matching[1][k]
                /\ printed[1].value.placements = placements
                /\ Cardinality(CallsOf("listPlacements")) = 1
                /\ \A i \in CallsOf("listPlacements") :
                     calls[i].args = <<Matching[1].id>>
           ELSE /\ printed[1].json = "array"
                /\ printed[1].value = Matching
                /\ CallsOf("listPlacements") = {}

\* C1 witness: the service lists two deployments, the prefix selects the
\* second, and it is printed with a non-empty placement list.
C1_Witness ==
    /\ pc = "returned"
    /\ Len(listed) = 2 /\ Len(Matching) = 1 /\ Matching[1] = listed[2]
    /\ printed[1].json = "object"
    /\ Len(printed[1].value.placements) = 2

\* C1 witness of the other case: two deployments match and are printed as an
\* array in the service's order.
C1_WitnessArray ==
    /\ pc = "returned"
    /\ prefix = <<"a">>
    /\ Len(Matching) = 2 /\ Matching[1] # Matching[2]
    /\ printed[1].json = "array"

ServiceOps == {"loadAccountSpinner", "listDeployments", "listPlacements"}

\* C8: on the non-interactive path no operation is called twice; a rejected
\* await ends the handler in failure with nothing printed, the rejected call
\* being the last one made (so a rejected listDeployments is followed by no
\* listPlacements), and no step follows.
C8_NoRetry ==
    /\ \A op \in ServiceOps : Cardinality(CallsOf(op)) <= 1
    /\ (pc = "failed") = (rejected # "none")
    /\ pc = "failed" =>
        /\ printed = <<>>
        /\ rejected \in {"loadAccountSpinner", "json.listDeployments",
                         "json.listPlacements"}
        /\ rejected = "loadAccountSpinner" =>
             calls[Len(calls)].op = "loadAccountSpinner"
        /\ rejected = "json.listDeployments" =>
             calls[Len(calls)].op = "listDeployments"
        /\ rejected = "json.listPlacements" =>
             calls[Len(calls)].op = "listPlacements"
        /\ ~ENABLED NextJson

\* C8 witness: listPlacements rejects after the two earlier calls succeeded.
C8_Witness ==
    /\ pc = "failed"
    /\ rejected = "json.listPlacements"
    /\ Len(calls) = 3
    /\ printed = <<>>

-----------------------------------------------------------------------------
(* listCommandHandle: the interactive loop (lines 129-183). *)

\* const keepListIter = false
keepListIterFalse == FALSE

\* const keepListIter = true
keepListIter == TRUE

\* new Date().toLocaleString()
toLocaleString(t) == ToString(t)

Spin(i, op, by) == [iter |-> i, op |-> op, by |-> by]

\* The closures in which code can still run: the prompt is open, or an
\* onRefresh invocation awaits its listPlacements.
Collect(cs) ==
    [i \in {j \in DOMAIN cs : ~cs[j].refresh \/ cs[j].pending > 0} |-> cs[i]]

\* await loadDeployments(...) resolves to L; the chooser is opened on it.
LoadDeploymentsResolves ==
    /\ pc = "loadDeployments"
    /\ \E L \in LoadedDeploymentLists : deployments' = L
    /\ calls' = Append(calls,
           Call("listCommandHandle", "listDeploymentsAndChoose", <<>>))
    /\ pc' = "listDeploymentsAndChoose"
    /\ UNCHANGED rejected
    /\ UNCHANGED argVars
    /\ UNCHANGED jsonVars
    /\ UNCHANGED loopVars
    /\ UNCHANGED renderVars

LoadDeploymentsFails == Rejects("loadDeployments")

\* await listDeploymentsAndChoose(deployments) resolves to one of the
\* deployments it was given (given none, it can only reject); the handler
\* calls loadPlacements() and awaits it in promiseSpinner.  The list is not
\* read again in this iteration and is dropped from the state.
ChooseDeployment ==
    /\ pc = "listDeploymentsAndChoose"
    /\ \E k \in 1..Len(deployments) : deployment' = deployments[k]
    /\ deployments' = <<>>
    /\ calls' = Append(calls,
           Call("listCommandHandle", "listPlacements", <<deployment'.id>>))
    /\ pc' = "promiseSpinner"
    /\ UNCHANGED rejected
    /\ UNCHANGED argVars
    /\ UNCHANGED jsonVars
    /\ UNCHANGED <<iter, closures, spinner, invoked, shown, lastReturn,
                   lateReturn>>
    /\ UNCHANGED renderVars

ChooseDeploymentFails == Rejects("listDeploymentsAndChoose")

\* await promiseSpinner(loadPlacements()) resolves to P: a spinner is made,
\* refresh is set to false and the prompt opens on P's options.
LoadPlacementsResolves ==
    /\ pc = "promiseSpinner"
    /\ \E P \in PlacementLists : shown' = mapPlacementToOptions(P)
    /\ closures' = [i \in DOMAIN closures \cup {iter} |->
                       IF i = iter
                       THEN [deployment |-> deployment, refresh |-> FALSE,
                             pending |-> 0]
                       ELSE closures[i]]
    /\ pc' = "inputPrompt"
    /\ UNCHANGED <<rejected, calls, deployments>>
    /\ UNCHANGED argVars
    /\ UNCHANGED jsonVars
    /\ UNCHANGED <<iter, deployment, spinner, invoked, lastReturn, lateReturn>>
    /\ UNCHANGED renderVars

LoadPlacementsFails == Rejects("promiseSpinner")

\* The prompt invokes onRefresh (the user pressed R): start(), then
\* loadPlacements() is called and awaited.
OnRefresh ==
    /\ pc = "inputPrompt"
    /\ invoked < MaxRefresh
    /\ invoked' = invoked + 1
    /\ spinner' = Spin(iter, "start", "onRefresh")
    /\ calls' = Append(calls,
           Call("onRefresh", "listPlacements", <<closures[iter].deployment.id>>))
    /\ closures' = [closures EXCEPT ![iter].pending = @ + 1]
    /\ UNCHANGED <<pc, rejected, deployments>>
    /\ UNCHANGED argVars
    /\ UNCHANGED jsonVars
    /\ UNCHANGED <<iter, deployment, shown, lastReturn, lateReturn>>
    /\ UNCHANGED renderVars

\* The flag declared once, outside the loop: every invocation reads the flag
\* of the newest prompt.
dismissedHoisted(i) ==
    closures[CHOOSE j \in DOMAIN closures :
                \A k \in DOMAIN closures : k <= j].refresh

\* if (refresh), read by an onRefresh invocation of iteration i: the closure
\* holds the flag of its own iteration.
dismissed(i) == closures[i].refresh

\* The displayed options kept and stamped again when as many are fetched.
onRefreshOptionsReused(P) ==
    IF Len(shown) = Len(P) THEN shown ELSE mapPlacementToOptions(P)

\* (await loadPlacements()).map(placementToOptions)
onRefreshOptions(P) == mapPlacementToOptions(P)

\* The timestamp appended to every label.
onRefreshStampAll(options, t) ==
    [k \in 1..Len(options) |->
        [options[k] EXCEPT
            !.label = @ \o <<", last refresh: ", toLocaleString(t)>>]]

\* if (options.length) options[0].label += ", last refresh: " + ...
onRefreshStamp(options, t) ==
    IF Len(options) # 0
    THEN [options EXCEPT
            ![1].label = @ \o <<", last refresh: ", toLocaleString(t)>>]
    ELSE options

\* await loadPlacements() resolves to P in an onRefresh invocation of
\* iteration i, which runs to its return; new Date() reads t.
RefreshResolves ==
    /\ \E i \in DOMAIN closures :
        /\ closures[i].pending > 0
        /\ closures' = Collect([closures EXCEPT ![i].pending = @ - 1])
        /\ IF dismissed(i)
           THEN /\ lateReturn' = [iter |-> i, options |-> <<>>]
                /\ UNCHANGED <<spinner, shown, lastReturn>>
           ELSE /\ \E P \in PlacementLists, t \in 0..MaxClock :
                     lastReturn' =
                        [iter |-> i, fetched |-> P,
                         options |-> onRefreshStamp(onRefreshOptions(P), t)]
                /\ spinner' = Spin(i, "stop", "onRefresh")
                /\ shown' = lastReturn'.options
                /\ UNCHANGED lateReturn
    /\ UNCHANGED <<pc, rejected, calls, deployments>>
    /\ UNCHANGED argVars
    /\ UNCHANGED jsonVars
    /\ UNCHANGED <<iter, deployment, invoked>>
    /\ UNCHANGED renderVars

\* await loadPlacements() rejects in an onRefresh invocation: the invocation
\* ends there, and its rejection goes to the prompt toolkit.
RefreshRejects ==
    /\ \E i \in DOMAIN closures :
        /\ closures[i].pending > 0
        /\ closures' = Collect([closures EXCEPT ![i].pending = @ - 1])
    /\ UNCHANGED <<pc, rejected, calls, deployments>>
    /\ UNCHANGED argVars
    /\ UNCHANGED jsonVars
    /\ UNCHANGED <<iter, deployment, spinner, invoked, shown, lastReturn,
                   lateReturn>>
    /\ UNCHANGED renderVars

\* await inputPrompt(...) rejects.
PromptFails == Rejects("inputPrompt")

\* await inputPrompt(...) resolves (the prompt is dismissed and displays
\* nothing any more): refresh = true, stop(), and the loop condition is read;
\* the next iteration runs to its await of loadDeployments.
DismissPrompt ==
    /\ pc = "inputPrompt"
    /\ iter < MaxIter
    /\ closures' = Collect([closures EXCEPT ![iter].refresh = TRUE])
    /\ spinner' = Spin(iter, "stop", "listCommandHandle")
    /\ IF keepListIter
       THEN /\ iter' = iter + 1
            /\ calls' = <<LoadDeploymentsCall>>
            /\ lastReturn' = NoReturn
            /\ lateReturn' = NoLateReturn
            /\ pc' = "loadDeployments"
       ELSE /\ pc' = "returned"
            /\ UNCHANGED <<iter, calls, lastReturn, lateReturn>>
    /\ shown' = <<>>
    /\ UNCHANGED <<rejected, deployments>>
    /\ UNCHANGED argVars
    /\ UNCHANGED jsonVars
    /\ UNCHANGED <<deployment, invoked>>
    /\ UNCHANGED renderVars

Next ==
    \/ LoadAccountResolves
    \/ LoadAccountFails
    \/ LoadDeploymentsResolves
    \/ LoadDeploymentsFails
    \/ ChooseDeployment
    \/ ChooseDeploymentFails
    \/ LoadPlacementsResolves
    \/ LoadPlacementsFails
    \/ OnRefresh
    \/ RefreshResolves
    \/ RefreshRejects
    \/ PromptFails
    \/ DismissPrompt

\* The command run in a terminal without --json.
Init == InitHandler /\ ~json /\ interactive

Spec == Init /\ [][Next]_vars

-----------------------------------------------------------------------------
(* The refresh callback. *)

\* The label placementToOptions gives p, and the suffix of a refresh.
BaseLabel(p) == placementToOptions(p).label

IsStamp(suffix) ==
    \E t \in 0..MaxClock : suffix = <<", last refresh: ", toLocaleString(t)>>

\* How many ", last refresh: " a label holds.
Stamps(label) ==
    Cardinality({k \in 1..Len(label) : label[k] = ", last refresh: "})

\* The label is p's label followed by exactly one refresh suffix.
StampedOnce(label, p) ==
    /\ Len(label) = Len(BaseLabel(p)) + 2
    /\ SubSeq(label, 1, Len(BaseLabel(p))) = BaseLabel(p)
    /\ IsStamp(SubSeq(label, Len(BaseLabel(p)) + 1, Len(label)))

\* A label without the suffix a refresh appended to it, if any.
Unstamped(label) ==
    IF Len(label) >= 2 /\ label[Len(label) - 1] = ", last refresh: "
    THEN SubSeq(label, 1, Len(label) - 2)
    ELSE label

\* Two option lists that differ at most in the timestamp of the first label.
SameButTimestamp(a, b) ==
    /\ Len(a) = Len(b)
    /\ \A k \in 1..Len(a) :
        /\ a[k].value = b[k].value
        /\ a[k].details = b[k].details
        /\ IF k = 1
           THEN Unstamped(a[k].label) = Unstamped(b[k].label)
           ELSE a[k].label = b[k].label

\* An onRefresh invocation has returned options to the prompt that is open.
Refreshed == pc = "inputPrompt" /\ lastReturn.iter = iter

\* Of a returned list the first label holds one "last refresh", the others
\* none.
RefreshOnce ==
    \A k \in 1..Len(lastReturn.options) :
        Stamps(lastReturn.options[k].label) = (IF k = 1 THEN 1 ELSE 0)

\* A return that follows one of the same prompt with the same placements
\* fetched differs from it at most in the timestamp.
RefreshStep ==
    (/\ lastReturn.iter # 0
     /\ lastReturn'.iter = lastReturn.iter
     /\ lastReturn'.fetched = lastReturn.fetched)
    => SameButTimestamp(lastReturn.options, lastReturn'.options)

\* C6: when two successive refreshes of one prompt fetch the same placements,
\* the option lists they return have the same length, order, values and
\* details, and the same labels but for the timestamp of the first; the first
\* label of every returned list holds one "last refresh" suffix, never two.
C6_RefreshIdempotent == []RefreshOnce /\ [][RefreshStep]_vars

\* C6 witness: a second refresh of the same prompt has fetched the same two
\* placements as the first and returned them at another time.
C6_Witness ==
    /\ Refreshed
    /\ invoked = 2 /\ closures[iter].pending = 0
    /\ Len(lastReturn.fetched) = 2
    /\ lastReturn.options[1].label[Len(lastReturn.options[1].label)]
         = toLocaleString(1)
    /\ spinner = Spin(iter, "stop", "onRefresh")

\* C7: a refresh that returns while its prompt is open has called
\* listPlacements for the chosen deployment and returns one option per fetched
\* placement, in order: the first is that placement's option with the "last
\* refresh" timestamp appended to its label, every other equals the initial
\* rendering of its placement; an empty fetch gives an empty list.  The
\* returned list is what the prompt then displays.
C7_RefreshReplaces ==
    /\ \A k \in DOMAIN calls :
        calls[k].from = "onRefresh" =>
            /\ calls[k].op = "listPlacements"
            /\ calls[k].args = <<deployment.id>>
    /\ lastReturn.iter # 0 =>
        /\ Len(lastReturn.options) = Len(lastReturn.fetched)
        /\ \A k \in 1..Len(lastReturn.fetched) :
            IF k = 1
            THEN /\ lastReturn.options[k].value = lastReturn.fetched[k].id
                 /\ lastReturn.options[k].details
                      = placementToOptions(lastReturn.fetched[k]).details
                 /\ StampedOnce(lastReturn.options[k].label,
                                lastReturn.fetched[k])
            ELSE lastReturn.options[k]
                     = placementToOptions(lastReturn.fetched[k])
    /\ Refreshed => shown = lastReturn.options

\* C7 witness: a refresh has replaced a one-option list by a two-option list.
C7_Witness ==
    /\ Refreshed
    /\ Len(lastReturn.fetched) = 2
    /\ Len(shown) = 2
    /\ invoked = 1
    /\ StampedOnce(shown[1].label, lastReturn.fetched[1])
    /\ shown[2] = placementToOptions(lastReturn.fetched[2])

\* C7 witness of the empty case: a refresh fetched nothing and the prompt
\* shows nothing.
C7_WitnessEmpty ==
    /\ Refreshed
    /\ lastReturn.fetched = <<>>
    /\ shown = <<>>
    /\ spinner = Spin(iter, "stop", "onRefresh")

Resolving(i) ==
    /\ i \in DOMAIN closures
    /\ closures[i].pending > 0
    /\ \/ i \notin DOMAIN closures'
       \/ closures'[i].pending < closures[i].pending

\* The flag of the open prompt is false, the flags of earlier iterations are
\* true, and what was returned late is empty.
FlagPerIteration ==
    /\ pc = "inputPrompt" => (iter \in DOMAIN closures /\ ~closures[iter].refresh)
    /\ \A i \in DOMAIN closures : i < iter => closures[i].refresh
    /\ lateReturn.options = <<>>
    /\ lateReturn.iter # 0 => lateReturn.iter < iter

\* The end of an onRefresh invocation of iteration i, by the flag of i.
LateStep ==
    \A i \in 1..MaxIter :
        /\ (Resolving(i) /\ closures[i].refresh) =>
              /\ UNCHANGED <<spinner, shown, lastReturn>>
              /\ \/ UNCHANGED lateReturn
                 \/ lateReturn' = [iter |-> i, options |-> <<>>]
        /\ (Resolving(i) /\ ~closures[i].refresh) =>
              \/ UNCHANGED <<spinner, shown, lastReturn, lateReturn>>
              \/ /\ spinner' = Spin(i, "stop", "onRefresh")
                 /\ lastReturn'.iter = i
                 /\ UNCHANGED lateReturn
        /\ (i \in DOMAIN closures /\ i \in DOMAIN closures'
                /\ closures[i].refresh) => closures'[i].refresh

\* C9: an onRefresh invocation that ends after its prompt was dismissed
\* returns the empty list or nothing (a rejection), calls no stop and stamps
\* nothing; one that returns before the dismissal has called stop.  Each
\* iteration has its own refresh flag: false while its prompt is open, true in
\* every earlier iteration, and never false again once true.
C9_LateRefreshDiscarded == []FlagPerIteration /\ [][LateStep]_vars

\* C9 witness: the prompt of the second iteration is open, and a refresh of
\* the first iteration has returned late, since that iteration was dismissed;
\* the last spinner call is still the handler's stop of the first iteration.
C9_Witness ==
    /\ pc = "inputPrompt" /\ iter = 2
    /\ lateReturn = [iter |-> 1, options |-> <<>>]
    /\ spinner = Spin(1, "stop", "listCommandHandle")
    /\ lastReturn = NoReturn
    /\ Len(shown) = 2

HandlerOrder == <<"loadDeployments", "listDeploymentsAndChoose", "listPlacements">>

HandlerCalls == SelectSeq(calls, LAMBDA c : c.from = "listCommandHandle")

AwaitOf(n) ==
    IF n = 1 THEN "loadDeployments"
    ELSE IF n = 2 THEN "listDeploymentsAndChoose"
    ELSE "promiseSpinner"

\* The calls of the current iteration, in order, and the await they lead to.
LoopOrder ==
    /\ pc # "returned"
    /\ pc \in {"loadAccountSpinner", "failed"} \/ iter >= 1
    /\ iter >= 1 =>
        /\ Len(HandlerCalls) \in 1..3
        /\ \A n \in 1..Len(HandlerCalls) : HandlerCalls[n].op = HandlerOrder[n]
        /\ HandlerCalls[1] = calls[1]
        /\ calls[1].args = <<prefix, filters>>
        /\ Len(HandlerCalls) = 3 => HandlerCalls[3].args = <<deployment.id>>
        /\ \A k \in DOMAIN calls : calls[k].from = "onRefresh" => k > 3
        /\ pc # "failed" =>
             pc = (IF Len(calls) > 3 THEN "inputPrompt"
                   ELSE IF Len(HandlerCalls) = 3
                   THEN (IF iter \in DOMAIN closures /\ ~closures[iter].refresh
                         THEN "inputPrompt" ELSE "promiseSpinner")
                   ELSE AwaitOf(Len(HandlerCalls)))
    /\ pc = "failed" =>
        rejected \in {"loadAccountSpinner", "loadDeployments",
                      "listDeploymentsAndChoose", "promiseSpinner",
                      "inputPrompt"}

\* Leaving the prompt: by its rejection, or into the next iteration.
DismissStep ==
    (pc = "inputPrompt" /\ pc' # "inputPrompt") =>
        \/ pc' = "failed" /\ rejected' = "inputPrompt"
        \/ /\ pc' = "loadDeployments"
           /\ iter' = iter + 1
           /\ spinner' = Spin(iter, "stop", "listCommandHandle")
           /\ calls' = <<Call("listCommandHandle", "loadDeployments",
                              <<prefix, filters>>)>>
           /\ UNCHANGED <<prefix, filters>>

\* C10: the interactive handler does not return.  In each iteration it calls
\* loadDeployments with the command's prefix and filters, then the chooser,
\* then listPlacements with the chosen deployment's id, and only then opens
\* the placement prompt, whose refreshes alone fetch further placements; when
\* the prompt is dismissed it stops the spinner and begins the next iteration
\* with loadDeployments.  It ends only by a rejection of one of its awaits.
C10_LoopForever == []LoopOrder /\ [][DismissStep]_vars

\* C10 witness: the second iteration has reached its placement prompt after
\* choosing a deployment, the first having been dismissed.
C10_Witness ==
    /\ pc = "inputPrompt" /\ iter = 2
    /\ prefix = <<"a">> /\ filters.location = "l"
    /\ Len(calls) = 3
    /\ deployment.id = <<"a", "b">>
    /\ DOMAIN closures = {2}

=============================================================================
